---- MODULE Spec2Model ----
(***************************************************************************)
(* File scheduler of the ZooKeeper HA demo platform: plan construction     *)
(* (build_scheduler_plan), migration execution (maybe_rebalance_files),    *)
(* the timer loop and the manual run-once endpoint, and node drain.        *)
(*                                                                         *)
(* The backend module main.py is not part of the source tree at hand; its  *)
(* behaviour is taken from the repository's architecture document          *)
(* (src/unnamed/part_000, sections 3 to 8), which describes every step of  *)
(* build_scheduler_plan and maybe_rebalance_files.  Where that document is *)
(* silent (the mutual exclusion of scheduling cycles, uploads, deletions)  *)
(* the definitions follow spec.md and say so.                              *)
(*                                                                         *)
(* Abstractions: timestamps, file sizes and free-text reasons are left     *)
(* out; a file's path is the node directory that holds its payload.        *)
(***************************************************************************)
EXTENDS Integers, Sequences, FiniteSets, TLC

\* ---------------------------------------------------------------- bounds
MaxFiles == 2
MaxThreshold == 2
MaxOps == 2
MaxIncidents == 1
PlanFiles == 4

\* ------------------------------------------------------------- constants
NoNode == "none"
\* An absent file record / a null candidate / no plan: records of the shape of
\* the present ones, so that they compare with them.
NoFile == [node |-> NoNode, path |-> NoNode, history |-> <<>>]
NoCandidate == [id |-> 0, node |-> NoNode, path |-> NoNode, history |-> <<>>]
NoPlan == [reason |-> "noplan"]
NoProc == "noproc"

AllNodes == {"zk1", "zk2", "zk3"}
\* The deployed cluster, and the node lists plans are computed for in SpecPlan.
ConfiguredChoices == {<<"zk1", "zk2", "zk3">>}
PlanConfiguredChoices ==
    {<<"zk1", "zk2", "zk3">>, <<"zk3", "zk1", "zk2">>, <<"zk1", "zk2">>, <<"zk2">>}
Procs == {"timer", "manual"}
FileIds == 1..MaxFiles

VARIABLES
    zk_nodes,   \* settings.zk_nodes: ordered list of configured node ids
    threshold,  \* settings.scheduler_threshold
    files,      \* State Store, table files: id -> record or NoFile
    created,    \* number of file records created so far (ids are never reused)
    disk,       \* physical storage: id -> node directory holding the payload
    drained,    \* State Store, node_state: the set of drained nodes
    registry,   \* ZooKeeper mirror: id -> node registered under the file's znode
    ops,        \* State Store, table operations: the auto_migrate records
    lock,       \* holder of the scheduling critical section
    pc,         \* position of each trigger (timer loop, manual request)
    before,     \* run-once: plan computed before maybe_rebalance_files
    plan,       \* plan built inside maybe_rebalance_files
    after,      \* run-once: plan computed after maybe_rebalance_files
    executed,   \* return value of maybe_rebalance_files
    err,        \* exception raised inside maybe_rebalance_files, if any
    diag,       \* last response of GET /api/scheduler/diagnostics
    races,      \* history variable: external changes made during the cycle in flight
    incidents,  \* deletions, failed calls and in-flight external changes so far
    stopped     \* the background loop has been asked to stop

\* The dashboard page (frontend/assets/workload): lifecycle hooks.
VARIABLES
    hook,              \* lifecycle of the component: created, mounted, unmounted
    autoRefreshTimer,  \* this._autoRefreshTimer
    intervals,         \* the browser's live setInterval timers
    now,               \* milliseconds since the page was created
    due,               \* when the live interval fires next
    inflight,          \* refreshAll calls in flight, by what started them
    started,           \* history variable: refreshAll calls started, by origin
    lastRefresh        \* outcome of the refreshAll that settled last

mountVars == <<hook, autoRefreshTimer, intervals, now, due, inflight, started,
               lastRefresh>>

\* The dashboard page: runScheduler.
VARIABLES
    schedulerRunning,   \* this.schedulerRunning
    schedulerProgress,  \* this.schedulerProgress
    schedulerMessage,   \* what this.schedulerMessage reports
    runPc,              \* position of each runScheduler call
    hidePending,        \* setTimeout(..., 1000) callbacks of finally not yet run
    runsStarted         \* history variable: runScheduler calls made so far

schedVars == <<schedulerRunning, schedulerProgress, schedulerMessage, runPc,
               hidePending, runsStarted>>

\* The dashboard page: uploadRealFiles.
VARIABLES
    selectedFiles,   \* this.selectedFiles
    triggerAfter,    \* this.bulkForm.trigger_scheduler
    bulkLoading,     \* this.bulkLoading
    bulkMessage,     \* what this.bulkMessage reports
    uploadProgress,  \* this.uploadProgress: the status of each entry
    upPc,            \* position of the uploadRealFiles call
    upFiles,         \* const files
    upIndex,         \* the loop variable i, counted from 1
    upItem,          \* const progressItem: live, detached or undefined
    successCount,    \* let successCount
    failCount,       \* let failCount
    clearPending,    \* setTimeout(..., 3000) callbacks not yet run
    sent,            \* history variable: the files sent by the call, in order
    batches          \* history variable: uploadRealFiles calls made so far

uploadVars == <<selectedFiles, triggerAfter, bulkLoading, bulkMessage,
                uploadProgress, upPc, upFiles, upIndex, upItem, successCount,
                failCount, clearPending, sent, batches>>

\* common.js: functions made by withUiState.
VARIABLES
    uiFlag,     \* this[key], for each key
    wrapPc,     \* position of each call of a wrapped function
    wrapKey,    \* the key of the wrapper each call went through
    invoked     \* history variable: asyncFn invocations made so far

guardVars == <<uiFlag, wrapPc, wrapKey, invoked>>

dashboard == <<mountVars, schedVars, uploadVars, guardVars>>

backend == <<zk_nodes, threshold, files, created, disk, drained, registry, ops,
             lock, pc, before, plan, after, executed, err, diag, races, incidents,
             stopped>>

vars == <<backend, dashboard>>

storeVars == <<files, created, disk, drained, registry, ops>>
config == <<zk_nodes, threshold>>
budget == <<incidents, diag>>

\* --------------------------------------------------------------- helpers
Range(s) == {s[i] : i \in DOMAIN s}

IsManual(p) == p = "manual"

\* db.get_files(): all file records, newest first (ids grow with creation).
RECURSIVE FilesFrom(_, _)
FilesFrom(fs, i) ==
    IF i = 0 THEN <<>>
    ELSE (IF fs[i] # NoFile THEN <<[id |-> i, node |-> fs[i].node,
                                     path |-> fs[i].path,
                                     history |-> fs[i].history]>>
          ELSE <<>>) \o FilesFrom(fs, i - 1)

get_files(fs) == FilesFrom(fs, Cardinality(DOMAIN fs))

init_counts(nodes) == [n \in Range(nodes) |-> 0]

RECURSIVE Accumulate(_, _)

\* Faulty variant of Accumulate: the first record read is not counted.
AccumulateSkipsFirst(counts, recs) ==
    IF recs = <<>> THEN counts ELSE Accumulate(counts, Tail(recs))

\* for record in files: counts[record["node"]] += 1
Accumulate(counts, recs) ==
    IF recs = <<>> THEN counts
    ELSE Accumulate([counts EXCEPT ![Head(recs).node] = @ + 1], Tail(recs))

\* Faulty variant of FirstMax: among equally loaded nodes the last one wins.
LastMax(pool, counts) ==
    IF pool = <<>> THEN NoNode
    ELSE pool[CHOOSE i \in 1..Len(pool) :
                 /\ \A j \in 1..Len(pool) : counts[pool[j]] <= counts[pool[i]]
                 /\ \A j \in (i + 1)..Len(pool) : counts[pool[j]] < counts[pool[i]]]

\* First element of pool with the highest / lowest count.
FirstMax(pool, counts) ==
    IF pool = <<>> THEN NoNode
    ELSE pool[CHOOSE i \in 1..Len(pool) :
                 /\ \A j \in 1..Len(pool) : counts[pool[j]] <= counts[pool[i]]
                 /\ \A j \in 1..(i - 1) : counts[pool[j]] < counts[pool[i]]]

FirstMin(pool, counts) ==
    IF pool = <<>> THEN NoNode
    ELSE pool[CHOOSE i \in 1..Len(pool) :
                 /\ \A j \in 1..Len(pool) : counts[pool[j]] >= counts[pool[i]]
                 /\ \A j \in 1..(i - 1) : counts[pool[j]] > counts[pool[i]]]

\* Faulty variant of pick_source: drained nodes get no priority.
pick_sourceIgnoresDrain(counts, dr, nodes) == FirstMax(nodes, counts)

pick_source(counts, dr, nodes) ==
    LET drainedWithFiles == SelectSeq(nodes, LAMBDA n : n \in dr /\ counts[n] > 0)
    IN  IF drainedWithFiles # <<>> THEN FirstMax(drainedWithFiles, counts)
        ELSE FirstMax(nodes, counts)

\* Faulty variant of pick_target: the least loaded node, drained or not.
pick_targetIgnoresDrain(counts, dr, nodes) == FirstMin(nodes, counts)

pick_target(counts, dr, nodes) ==
    LET active == SelectSeq(nodes, LAMBDA n : n \notin dr)
    IN  IF active # <<>> THEN FirstMin(active, counts)
        ELSE FirstMin(nodes, counts)

find_first(recs, node) ==
    LET hits == SelectSeq(recs, LAMBDA r : r.node = node)
    IN  IF hits = <<>> THEN NoCandidate ELSE Head(hits)

\* Faulty variant of PlanReason: the threshold gate is missing.
PlanReasonNoThresholdGate(candidate, source, target, delta, th) ==
    IF candidate = NoCandidate THEN "no_candidate"
    ELSE IF target = NoNode \/ source = target THEN "no_target"
    ELSE "ok"

\* Faulty variant of PlanReason: the target gate comes before the threshold gate.
PlanReasonTargetFirst(candidate, source, target, delta, th) ==
    IF candidate = NoCandidate THEN "no_candidate"
    ELSE IF target = NoNode \/ source = target THEN "no_target"
    ELSE IF delta < th THEN "below_threshold"
    ELSE "ok"

\* Faulty variant of PlanReason: the branch without a usable target sets no reason.
PlanReasonLeavesBlank(candidate, source, target, delta, th) ==
    IF candidate = NoCandidate THEN "no_candidate"
    ELSE IF delta < th THEN "below_threshold"
    ELSE IF target = NoNode \/ source = target THEN "unset"
    ELSE "ok"

\* Faulty variant of PlanReason: the threshold gate lets delta = th - 1 through.
PlanReasonGateOffByOne(candidate, source, target, delta, th) ==
    IF candidate = NoCandidate THEN "no_candidate"
    ELSE IF delta < th - 1 THEN "below_threshold"
    ELSE IF target = NoNode \/ source = target THEN "no_target"
    ELSE "ok"

PlanReason(candidate, source, target, delta, th) ==
    IF candidate = NoCandidate THEN "no_candidate"
    ELSE IF delta < th THEN "below_threshold"
    ELSE IF target = NoNode \/ source = target THEN "no_target"
    ELSE "ok"

\* Faulty variant of SingleTarget: the list of configured nodes is not looked at.
SingleTargetNever(nodes) == FALSE

\* Only one node is configured: nothing can be moved anywhere.
SingleTarget(nodes) == Len(nodes) = 1

\* There is no file record at all.
NoFiles(recs) == recs = <<>>

\* No node is left in service: the target is the least loaded drained node.
Fallback(dr, nodes) == Range(nodes) \subseteq dr

\* plan["message"]: what the plan explains, and whether it mentions that the
\* target had to be taken among drained nodes.
Message(reason, fallback) == [about |-> reason, fallback |-> fallback]

build_scheduler_plan(fs, dr, nodes, th) ==
    LET recs == get_files(fs)
        counts == Accumulate(init_counts(nodes), recs)
        source == pick_source(counts, dr, nodes)
        target == pick_target(counts, dr, nodes)
        candidate == find_first(recs, source)
        delta == IF target = NoNode THEN 0 ELSE counts[source] - counts[target]
        reason == IF SingleTarget(nodes) THEN "single_target"
                  ELSE IF NoFiles(recs) THEN "no_files"
                  ELSE PlanReason(candidate, source, target, delta, th)
    IN  [counts |-> counts,
         drainedNodes |-> dr \cap Range(nodes),
         totalFiles |-> Len(recs),
         sourceNode |-> source,
         targetNode |-> target,
         candidate |-> candidate,
         delta |-> delta,
         threshold |-> th,
         shouldMigrate |-> (reason = "ok"),
         reason |-> reason,
         message |-> Message(reason, Fallback(dr, nodes))]

CurrentPlan == build_scheduler_plan(files, drained, zk_nodes, threshold)

\* ------------------------------------------------------------------ init
\* ------------------------------------------------- the dashboard page
\* null
NoTimer == 0

\* setInterval(() => this.refreshAll(), 8000)
RefreshIntervalMs == 8000

\* The clock stops after this many refresh intervals.
MaxIntervals == 3

\* The largest id setInterval hands out.
MaxTimerId == 2

TimerIds == 1..MaxTimerId

Origins == {"mount", "timer"}

\* The page before its component is mounted.
MountAtRest ==
    /\ hook = "created"
    /\ autoRefreshTimer = NoTimer
    /\ intervals = {}
    /\ now = 0
    /\ due = 0
    /\ inflight = [o \in Origins |-> 0]
    /\ started = [o \in Origins |-> 0]
    /\ lastRefresh = "none"

\* The most runScheduler calls that can be in flight together.
MaxRuns == 2

\* The most runScheduler calls made in one behaviour.
MaxRunStarts == 3

\* The calls of runScheduler: button clicks and uploadRealFiles.
Runs == 1..MaxRuns

\* No runScheduler call has been made.
SchedulerAtRest ==
    /\ schedulerRunning = FALSE
    /\ schedulerProgress = 0
    /\ schedulerMessage = "none"
    /\ runPc = [r \in Runs |-> "idle"]
    /\ hidePending = 0
    /\ runsStarted = 0

\* The most files selected for one upload.
MaxSelected == 2

\* The most uploadRealFiles calls made in one behaviour.
MaxBatches == 2

\* A selection of n files, named by their place in the selection.
Selection(n) == [i \in 1..n |-> i]

\* No upload has been started.
UploadAtRest ==
    /\ selectedFiles = <<>>
    /\ triggerAfter = FALSE
    /\ bulkLoading = FALSE
    /\ bulkMessage = "none"
    /\ uploadProgress = <<>>
    /\ upPc = "idle"
    /\ upFiles = <<>>
    /\ upIndex = 1
    /\ upItem = "undefined"
    /\ successCount = 0
    /\ failCount = 0
    /\ clearPending = 0
    /\ sent = <<>>
    /\ batches = 0

\* The most calls of wrapped functions that can be pending together.
MaxCalls == 3

\* The most asyncFn invocations in one behaviour.
MaxInvoked == 4

Calls == 1..MaxCalls

\* The keys wrappers are made for.
Keys == {"loading", "saving"}

\* No wrapped function has been called: this[key] is undefined.
GuardAtRest ==
    /\ uiFlag = [k \in Keys |-> "undefined"]
    /\ wrapPc = [c \in Calls |-> "idle"]
    /\ wrapKey = [c \in Calls |-> "loading"]
    /\ invoked = 0

DashboardAtRest == MountAtRest /\ SchedulerAtRest /\ UploadAtRest /\ GuardAtRest

Init ==
    /\ DashboardAtRest
    /\ zk_nodes \in ConfiguredChoices
    /\ threshold \in 0..MaxThreshold
    /\ files = [i \in FileIds |-> NoFile]
    /\ created = 0
    /\ disk = [i \in FileIds |-> NoNode]
    /\ drained = {}
    /\ registry = [i \in FileIds |-> NoNode]
    /\ ops = <<>>
    /\ lock = NoProc
    /\ pc = [p \in Procs |-> "idle"]
    /\ before = [p \in Procs |-> NoPlan]
    /\ plan = [p \in Procs |-> NoPlan]
    /\ after = [p \in Procs |-> NoPlan]
    /\ executed = [p \in Procs |-> FALSE]
    /\ err = [p \in Procs |-> "none"]
    /\ diag = NoPlan
    /\ races = 0
    /\ incidents = 0
    /\ stopped = FALSE

\* Positions inside the critical section.
InSection == {"before", "build", "move", "store", "registry", "audit", "after", "done"}

\* ---------------------------------------------- external collaborators
InFlight == \E p \in Procs : pc[p] \in InSection

\* An external collaborator may change the store while a cycle is in flight;
\* each such change counts as an incident.
MayDisturb == ~InFlight \/ incidents < MaxIncidents

Disturbed == IF InFlight THEN races + 1 ELSE races

Counted == IF InFlight THEN incidents + 1 ELSE incidents

\* db.create_file_record: the record of a file just written to node n.
FreshRecord(n) ==
    [node |-> n, path |-> n,
     history |-> <<[action |-> "upload", from |-> NoNode, to |-> n]>>]

\* storage.save_upload / create_demo_file + db.create_file_record +
\* zookeeper_utils.register_file_metadata
Upload(n) ==
    /\ MayDisturb
    /\ created < MaxFiles
    /\ n \in Range(zk_nodes)
    /\ created' = created + 1
    /\ files' = [files EXCEPT ![created + 1] = FreshRecord(n)]
    /\ disk' = [disk EXCEPT ![created + 1] = n]
    /\ registry' = [registry EXCEPT ![created + 1] = n]
    /\ races' = Disturbed
    /\ incidents' = Counted
    /\ UNCHANGED <<config, stopped, dashboard, drained, ops, lock, pc, before, plan, after, executed, err, diag>>

\* Deletion of a file by an external collaborator (record and payload).
Delete(f) ==
    /\ MayDisturb
    /\ files[f] # NoFile
    /\ files' = [files EXCEPT ![f] = NoFile]
    /\ disk' = [disk EXCEPT ![f] = NoNode]
    /\ registry' = [registry EXCEPT ![f] = NoNode]
    /\ races' = Disturbed
    /\ incidents < MaxIncidents
    /\ incidents' = incidents + 1
    /\ UNCHANGED <<config, stopped, dashboard, created, drained, ops, lock, pc, before, plan, after, executed, err, diag>>

\* Faulty variant of Drain: the node states are rewritten as a whole, which
\* returns every other node to service.
DrainResetsOthers(n) ==
    /\ MayDisturb
    /\ n \in Range(zk_nodes)
    /\ n \notin drained
    /\ drained' = {n}
    /\ races' = Disturbed
    /\ incidents' = Counted
    /\ UNCHANGED <<config, stopped, dashboard, files, created, disk, registry, ops, lock, pc, before, plan, after, executed, err, diag>>

\* POST /api/nodes/{node}/drain: db.set_node_state + operation record
Drain(n) ==
    /\ MayDisturb
    /\ n \in Range(zk_nodes)
    /\ n \notin drained
    /\ drained' = drained \cup {n}
    /\ races' = Disturbed
    /\ incidents' = Counted
    /\ UNCHANGED <<config, stopped, dashboard, files, created, disk, registry, ops, lock, pc, before, plan, after, executed, err, diag>>

\* POST /api/nodes/{node}/undrain
Undrain(n) ==
    /\ MayDisturb
    /\ n \in drained
    /\ drained' = drained \ {n}
    /\ races' = Disturbed
    /\ incidents' = Counted
    /\ UNCHANGED <<config, stopped, dashboard, files, created, disk, registry, ops, lock, pc, before, plan, after, executed, err, diag>>

\* ------------------------------------------------------ scheduling cycle
\* Faulty variant of LockFree: triggers do not wait for one another.
LockFreeAlways(p) == TRUE

LockFree(p) == lock = NoProc

\* A timer tick fires / a POST /api/scheduler/run request arrives, and enters
\* the critical section that guards plan-build-and-execute once it is free.
Acquire(p) ==
    /\ pc[p] = "idle"
    /\ IsManual(p) \/ ~stopped
    /\ LockFree(p)
    /\ Len(ops) < MaxOps
    /\ lock' = p
    /\ pc' = [pc EXCEPT ![p] = IF IsManual(p) THEN "before" ELSE "build"]
    /\ UNCHANGED <<config, stopped, dashboard, storeVars, before, plan, after, executed, err, races, budget>>

\* Where a cycle continues once maybe_rebalance_files has returned.
Returned(p) == IF IsManual(p) THEN "after" ELSE "done"

\* POST /api/scheduler/run: the "before" plan.
BuildBefore(p) ==
    /\ pc[p] = "before"
    /\ before' = [before EXCEPT ![p] = CurrentPlan]
    /\ pc' = [pc EXCEPT ![p] = "build"]
    /\ UNCHANGED <<config, stopped, dashboard, storeVars, lock, plan, after, executed, err, races, budget>>

\* Faulty variant of Build: the plan's decision is not looked at.
BuildIgnoresDecision(p) ==
    /\ pc[p] = "build"
    /\ plan' = [plan EXCEPT ![p] = CurrentPlan]
    /\ pc' = [pc EXCEPT ![p] =
                IF CurrentPlan.candidate # NoCandidate /\ CurrentPlan.targetNode # NoNode
                THEN "move" ELSE Returned(p)]
    /\ UNCHANGED <<config, stopped, dashboard, storeVars, lock, before, after, executed, err, races, budget>>

\* maybe_rebalance_files, steps 1 and 2.
Build(p) ==
    /\ pc[p] = "build"
    /\ plan' = [plan EXCEPT ![p] = CurrentPlan]
    /\ pc' = [pc EXCEPT ![p] =
                IF CurrentPlan.shouldMigrate /\ CurrentPlan.candidate # NoCandidate
                   /\ CurrentPlan.targetNode # NoNode
                   /\ CurrentPlan.sourceNode # CurrentPlan.targetNode
                THEN "move" ELSE Returned(p)]
    /\ UNCHANGED <<config, stopped, dashboard, storeVars, lock, before, after, executed, err, races, budget>>

\* Faulty variant of MoveOk: the target file is written whether or not the
\* payload is still at the candidate's path.
MoveOkBlind(p) ==
    /\ pc[p] = "move"
    /\ disk' = [disk EXCEPT ![plan[p].candidate.id] = plan[p].targetNode]
    /\ pc' = [pc EXCEPT ![p] = "store"]
    /\ UNCHANGED <<config, stopped, dashboard, files, created, drained, registry, ops, lock,
                   before, plan, after, executed, err, races, budget>>

\* storage.migrate_file(candidate, target_node) moved the payload.
MoveOk(p) ==
    /\ pc[p] = "move"
    /\ disk[plan[p].candidate.id] = plan[p].candidate.path
    /\ disk' = [disk EXCEPT ![plan[p].candidate.id] = plan[p].targetNode]
    /\ pc' = [pc EXCEPT ![p] = "store"]
    /\ UNCHANGED <<config, stopped, dashboard, files, created, drained, registry, ops, lock,
                   before, plan, after, executed, err, races, budget>>

\* Faulty variant of MoveFailNext: the exception is swallowed and the cycle goes on.
MoveFailContinues(p) == "store"

\* Faulty variant of MoveFailNext: the exception is not caught and ends the caller.
MoveFailHalts(p) == "halted"

\* The exception of migrate_file leaves maybe_rebalance_files.
MoveFailNext(p) == Returned(p)

\* The payload is no longer where the plan's candidate says it is.
PayloadGone(p) == disk[plan[p].candidate.id] # plan[p].candidate.path

\* storage.migrate_file raised: always when the payload is missing, otherwise
\* on an I/O error or timeout.
MoveFail(p) ==
    /\ pc[p] = "move"
    /\ PayloadGone(p) \/ incidents < MaxIncidents
    /\ incidents' = IF PayloadGone(p) THEN incidents ELSE incidents + 1
    /\ err' = [err EXCEPT ![p] = "move_failed"]
    /\ pc' = [pc EXCEPT ![p] = MoveFailNext(p)]
    /\ UNCHANGED <<config, stopped, dashboard, storeVars, lock, before, plan, after, executed, diag, races>>

MigrateEvent(pl) ==
    [action |-> "auto_migrate", from |-> pl.sourceNode, to |-> pl.targetNode]

\* Faulty variant of MigratedRecord: the node field is not switched to the target.
MigratedRecordKeepsNode(pl) ==
    [node |-> pl.sourceNode, path |-> pl.targetNode,
     history |-> Append(pl.candidate.history, MigrateEvent(pl))]

\* Faulty variant of MigratedRecord: the history is restarted instead of appended to.
MigratedRecordLosesHistory(pl) ==
    [node |-> pl.targetNode, path |-> pl.targetNode,
     history |-> <<MigrateEvent(pl)>>]

\* The record db.update_file_record writes for the plan's candidate.
MigratedRecord(pl) ==
    [node |-> pl.targetNode, path |-> pl.targetNode,
     history |-> Append(pl.candidate.history, MigrateEvent(pl))]

\* Faulty variant of StoreOk: every record of the source node is rewritten.
StoreOkMovesAll(p) ==
    /\ pc[p] = "store"
    /\ files' = [f \in FileIds |->
                    IF files[f] # NoFile /\ files[f].node = plan[p].sourceNode
                    THEN MigratedRecord(plan[p]) ELSE files[f]]
    /\ pc' = [pc EXCEPT ![p] = "registry"]
    /\ UNCHANGED <<config, stopped, dashboard, created, disk, drained, registry, ops, lock,
                   before, plan, after, executed, err, races, budget>>

\* db.update_file_record(id, node, path, history): one UPDATE statement.
StoreOk(p) ==
    /\ pc[p] = "store"
    /\ files' = IF files[plan[p].candidate.id] = NoFile THEN files
                ELSE [files EXCEPT ![plan[p].candidate.id] = MigratedRecord(plan[p])]
    /\ pc' = [pc EXCEPT ![p] = "registry"]
    /\ UNCHANGED <<config, stopped, dashboard, created, disk, drained, registry, ops, lock,
                   before, plan, after, executed, err, races, budget>>

\* db.update_file_record raised; the exception leaves maybe_rebalance_files.
StoreFail(p) ==
    /\ incidents < MaxIncidents
    /\ incidents' = incidents + 1
    /\ pc[p] = "store"
    /\ err' = [err EXCEPT ![p] = "store_failed"]
    /\ pc' = [pc EXCEPT ![p] = Returned(p)]
    /\ UNCHANGED <<config, stopped, dashboard, storeVars, lock, before, plan, after, executed, diag, races>>

\* zookeeper_utils.register_file_metadata (create-or-update).
RegistryOk(p) ==
    /\ pc[p] = "registry"
    /\ registry' = [registry EXCEPT ![plan[p].candidate.id] = plan[p].targetNode]
    /\ pc' = [pc EXCEPT ![p] = "audit"]
    /\ UNCHANGED <<config, stopped, dashboard, files, created, disk, drained, ops, lock,
                   before, plan, after, executed, err, races, budget>>

\* Faulty variant of RegistryFail: the failed registry write aborts the cycle.
RegistryFailAborts(p) ==
    /\ incidents < MaxIncidents
    /\ incidents' = incidents + 1
    /\ pc[p] = "registry"
    /\ pc' = [pc EXCEPT ![p] = Returned(p)]
    /\ UNCHANGED <<config, stopped, dashboard, storeVars, lock, before, plan, after, executed, err, diag, races>>

\* The registry write failed: logged, the cycle goes on.
RegistryFail(p) ==
    /\ incidents < MaxIncidents
    /\ incidents' = incidents + 1
    /\ pc[p] = "registry"
    /\ pc' = [pc EXCEPT ![p] = "audit"]
    /\ UNCHANGED <<config, stopped, dashboard, storeVars, lock, before, plan, after, executed, err, diag, races>>

\* Faulty variant of MigrateOperation: after_metrics repeats the plan's counts.
MigrateOperationStale(pl, fs, nodes) ==
    [action |-> "auto_migrate", node |-> pl.sourceNode, target |-> pl.targetNode,
     file |-> pl.candidate.id,
     before_metrics |-> pl.counts,
     after_metrics |-> pl.counts,
     status |-> "success"]

MigrateOperation(pl, fs, nodes) ==
    [action |-> "auto_migrate", node |-> pl.sourceNode, target |-> pl.targetNode,
     file |-> pl.candidate.id,
     before_metrics |-> pl.counts,
     after_metrics |-> Accumulate(init_counts(nodes), get_files(fs)),
     status |-> "success"]

\* db.record_operation(action="auto_migrate", ...); return True.
Audit(p) ==
    /\ pc[p] = "audit"
    /\ ops' = Append(ops, MigrateOperation(plan[p], files, zk_nodes))
    /\ executed' = [executed EXCEPT ![p] = TRUE]
    /\ pc' = [pc EXCEPT ![p] = Returned(p)]
    /\ UNCHANGED <<config, stopped, dashboard, files, created, disk, drained, registry, lock,
                   before, plan, after, err, races, budget>>

\* POST /api/scheduler/run: the "after" plan.
BuildAfter(p) ==
    /\ pc[p] = "after"
    /\ after' = [after EXCEPT ![p] = CurrentPlan]
    /\ pc' = [pc EXCEPT ![p] = "done"]
    /\ UNCHANGED <<config, stopped, dashboard, storeVars, lock, before, plan, executed, err, races, budget>>

\* The response is returned / the loop goes back to sleep.
Release(p) ==
    /\ pc[p] = "done"
    /\ lock' = IF lock = p THEN NoProc ELSE lock
    /\ pc' = [pc EXCEPT ![p] = "idle"]
    /\ before' = [before EXCEPT ![p] = NoPlan]
    /\ plan' = [plan EXCEPT ![p] = NoPlan]
    /\ after' = [after EXCEPT ![p] = NoPlan]
    /\ executed' = [executed EXCEPT ![p] = FALSE]
    /\ err' = [err EXCEPT ![p] = "none"]
    /\ races' = IF \E q \in Procs \ {p} : pc[q] \in InSection THEN races ELSE 0
    /\ UNCHANGED <<config, stopped, dashboard, storeVars, budget>>

Next ==
    \/ \E n \in AllNodes : Upload(n)
    \/ \E f \in FileIds : Delete(f)
    \/ \E n \in AllNodes : Drain(n)
    \/ \E n \in AllNodes : Undrain(n)
    \/ \E p \in Procs : Acquire(p)
    \/ \E p \in Procs : BuildBefore(p)
    \/ \E p \in Procs : Build(p)
    \/ \E p \in Procs : MoveOk(p)
    \/ \E p \in Procs : MoveFail(p)
    \/ \E p \in Procs : StoreOk(p)
    \/ \E p \in Procs : StoreFail(p)
    \/ \E p \in Procs : RegistryOk(p)
    \/ \E p \in Procs : RegistryFail(p)
    \/ \E p \in Procs : Audit(p)
    \/ \E p \in Procs : BuildAfter(p)
    \/ \E p \in Procs : Release(p)

Spec == Init /\ [][Next]_vars

\* ------------------------------------------------- the plan builder alone
\* Any store of at most PlanFiles files on the configured nodes, any drain
\* state, any threshold, any of the node lists.
InitPlan ==
    /\ DashboardAtRest
    /\ zk_nodes \in PlanConfiguredChoices
    /\ threshold \in 0..MaxThreshold
    /\ files \in [1..PlanFiles -> {NoFile} \cup {FreshRecord(n) : n \in Range(zk_nodes)}]
    /\ created = PlanFiles
    /\ disk = [i \in 1..PlanFiles |-> files[i].node]
    /\ drained \in SUBSET Range(zk_nodes)
    /\ registry = [i \in 1..PlanFiles |-> files[i].node]
    /\ ops = <<>>
    /\ lock = NoProc
    /\ pc = [p \in Procs |-> "idle"]
    /\ before = [p \in Procs |-> NoPlan]
    /\ plan = [p \in Procs |-> NoPlan]
    /\ after = [p \in Procs |-> NoPlan]
    /\ executed = [p \in Procs |-> FALSE]
    /\ err = [p \in Procs |-> "none"]
    /\ diag = NoPlan
    /\ races = 0
    /\ incidents = 0
    /\ stopped = FALSE

\* Faulty variant of Diagnostics: the read re-registers the candidate's
\* metadata under the plan's source node.
DiagnosticsWritesRegistry ==
    /\ diag' = CurrentPlan
    /\ registry' = IF CurrentPlan.candidate = NoCandidate THEN registry
                   ELSE [registry EXCEPT ![CurrentPlan.candidate.id] = NoNode]
    /\ UNCHANGED <<config, stopped, dashboard, files, created, disk, drained, ops, lock, pc, before, plan,
                   after, executed, err, races, incidents>>

\* GET /api/scheduler/diagnostics: build_scheduler_plan on the current snapshot.
Diagnostics ==
    /\ diag' = CurrentPlan
    /\ UNCHANGED <<config, stopped, dashboard, storeVars, lock, pc, before, plan, after, executed, err,
                   races, incidents>>

NextPlan == Diagnostics

SpecPlan == InitPlan /\ [][NextPlan]_vars

\* ======================================================= properties
Exists(f) == files[f] # NoFile

HasPlan(pl) == pl # NoPlan

RECURSIVE SumCounts(_, _)
SumCounts(counts, nodes) ==
    IF nodes = <<>> THEN 0
    ELSE counts[Head(nodes)] + SumCounts(counts, Tail(nodes))

FilesOn(n) == {f \in DOMAIN files : Exists(f) /\ files[f].node = n}

DrainedWithFiles(pl) == {n \in pl.drainedNodes : pl.counts[n] > 0}

\* C2: in every plan built, shouldMigrate = TRUE implies that there is a
\* candidate, that sourceNode differs from targetNode and that
\* delta = counts[sourceNode] - counts[targetNode] is at least the threshold.
C2_ShouldMigrateIsJustified ==
    (HasPlan(diag) /\ diag.shouldMigrate) =>
        /\ diag.candidate # NoCandidate
        /\ diag.sourceNode # diag.targetNode
        /\ diag.delta = diag.counts[diag.sourceNode] - diag.counts[diag.targetNode]
        /\ diag.delta >= diag.threshold

\* A plan that migrates with delta exactly at a positive threshold.
C2_Witness ==
    /\ HasPlan(diag)
    /\ diag.shouldMigrate
    /\ diag.threshold > 0
    /\ diag.delta = diag.threshold

Migrating == {"move", "store", "registry", "audit"}

CountsOf(fs) ==
    [n \in Range(zk_nodes) |->
        Cardinality({f \in DOMAIN fs : fs[f] # NoFile /\ fs[f].node = n})]

IsPrefix(s, t) == Len(s) <= Len(t) /\ SubSeq(t, 1, Len(s)) = s

\* C1: at most one trigger (timer tick or manual run) is inside the
\* build-plan-then-maybe-execute section at any time, so no file is the
\* candidate of two migrations in flight.
C1_SingleFlight ==
    /\ Cardinality({p \in Procs : pc[p] \in InSection}) <= 1
    /\ \A p, q \in Procs :
          (p # q /\ pc[p] \in Migrating /\ pc[q] \in Migrating) =>
              plan[p].candidate.id # plan[q].candidate.id

\* One trigger is about to move a file while the other is kept out by the lock.
C1_Witness ==
    \E p, q \in Procs :
        /\ p # q
        /\ pc[p] = "move"
        /\ pc[q] = "idle"
        /\ Len(ops) < MaxOps
        /\ ~LockFree(q)

TargetRespectsDrain(pl) ==
    HasPlan(pl) =>
        (pl.targetNode \in pl.drainedNodes => pl.drainedNodes = Range(zk_nodes))

C3_PlansRespectDrain ==
    /\ TargetRespectsDrain(diag)
    /\ \A p \in Procs :
          /\ TargetRespectsDrain(before[p])
          /\ TargetRespectsDrain(plan[p])
          /\ TargetRespectsDrain(after[p])

C3_MovesFollowPlan ==
    \A f \in FileIds :
        /\ (Exists(f) /\ files'[f] # NoFile /\ files'[f].node # files[f].node) =>
              \E p \in Procs : /\ pc[p] = "store"
                               /\ plan[p].candidate.id = f
                               /\ files'[f].node = plan[p].targetNode
        /\ (disk[f] # NoNode /\ disk'[f] # NoNode /\ disk'[f] # disk[f]) =>
              \E p \in Procs : /\ pc[p] = "move"
                               /\ plan[p].candidate.id = f
                               /\ disk'[f] = plan[p].targetNode

\* C3: the targetNode of every plan is a non-drained node unless every
\* configured node is drained, and a file's payload and record only ever move
\* to the targetNode of the plan being executed; so no file is migrated onto a
\* node that was drained at plan time while another node was not.
C3_NoMigrationOntoDrained ==
    []C3_PlansRespectDrain /\ [][C3_MovesFollowPlan]_vars

\* A migration was executed while a drained node held fewer files than the
\* node chosen as target.
C3_Witness ==
    \E p \in Procs :
        /\ executed[p]
        /\ Exists(plan[p].candidate.id)
        /\ files[plan[p].candidate.id].node = plan[p].targetNode
        /\ \E d \in plan[p].drainedNodes :
              plan[p].counts[d] < plan[p].counts[plan[p].targetNode]

C6_StoreWriteEffect ==
    \A p \in Procs :
        (pc[p] = "store" /\ pc'[p] = "registry" /\ files' # files) =>
            LET pl == plan[p]
                id == pl.candidate.id
                old == files[id].history
                new == files'[id].history
            IN  /\ pl.shouldMigrate
                /\ \A n \in Range(zk_nodes) :
                      CountsOf(files')[n] =
                          CountsOf(files)[n]
                          + (IF n = pl.targetNode THEN 1 ELSE 0)
                          - (IF n = pl.sourceNode THEN 1 ELSE 0)
                /\ pl.sourceNode # pl.targetNode
                /\ Len(new) = Len(old) + 1
                /\ IsPrefix(old, new)
                /\ new[Len(new)].to = pl.targetNode
                /\ new[Len(new)].action = "auto_migrate"
                /\ \A f \in FileIds \ {id} : files'[f] = files[f]

\* C6: the State Store write of a migration lowers the count of the plan's
\* sourceNode by one, raises the count of its targetNode by one, leaves every
\* other count and every other record unchanged, and appends exactly one entry,
\* whose `to` is targetNode, to the migrated file's history.
C6_MigrationRoundTrip == [][C6_StoreWriteEffect]_vars

\* A cycle has returned TRUE after migrating a file for the second time.
C6_Witness ==
    \E p \in Procs :
        /\ executed[p]
        /\ Exists(plan[p].candidate.id)
        /\ files[plan[p].candidate.id].node = plan[p].targetNode
        /\ Len(files[plan[p].candidate.id].history) = 3

NoMigrationPlanned(p) == HasPlan(plan[p]) /\ ~plan[p].shouldMigrate

C7_Frame ==
    \A p \in Procs :
        (/\ pc'[p] # pc[p]
         /\ \/ NoMigrationPlanned(p)
            \/ pc[p] = "build" /\ ~CurrentPlan.shouldMigrate) =>
            /\ UNCHANGED <<files, disk, registry, ops, drained>>
            /\ pc'[p] \notin Migrating
            /\ ~executed'[p]

C7_Result ==
    \A p \in Procs :
        (pc[p] = "done" /\ NoMigrationPlanned(p)) =>
            /\ ~executed[p]
            /\ err[p] = "none"
            /\ (IsManual(p) /\ races = 0) =>
                  /\ before[p].counts = after[p].counts
                  /\ before[p] = plan[p]
                  /\ after[p] = plan[p]
                  /\ after[p] = CurrentPlan

\* C7: a cycle whose plan has shouldMigrate = FALSE returns executed = FALSE
\* and none of its steps changes a file record, a payload, the registry, the
\* audit log or a node state; with no concurrent external change the run-once
\* response has before = after, and the plan of a repeated call is the same.
C7_NoOpCycle == []C7_Result /\ [][C7_Frame]_vars

\* A manual run has finished on a below_threshold plan over a non-empty store.
C7_Witness ==
    /\ pc["manual"] = "done"
    /\ NoMigrationPlanned("manual")
    /\ plan["manual"].reason = "below_threshold"
    /\ plan["manual"].totalFiles >= 1
    /\ races = 0

C8_LastEntryIsNode ==
    \A f \in FileIds :
        Exists(f) =>
            /\ Len(files[f].history) >= 1
            /\ files[f].history[Len(files[f].history)].to = files[f].node

C8_AppendOnly ==
    \A f \in FileIds :
        (Exists(f) /\ files'[f] # NoFile) =>
            IsPrefix(files[f].history, files'[f].history)

\* C8: in every state each file record's last history entry names the record's
\* current node, and every step leaves each record's earlier history in place
\* (entries are only appended).
C8_HistoryAppendOnly == []C8_LastEntryIsNode /\ [][C8_AppendOnly]_vars

\* A file that has been migrated twice.
C8_Witness == \E f \in FileIds : Exists(f) /\ Len(files[f].history) = 3

C9_FailedMoveLeavesRecord ==
    \A p \in Procs :
        err[p] = "move_failed" =>
            /\ ~executed[p]
            /\ pc[p] \notin Migrating
            /\ Exists(plan[p].candidate.id) =>
                  /\ files[plan[p].candidate.id].node = plan[p].candidate.node
                  /\ files[plan[p].candidate.id].path = plan[p].candidate.path
                  /\ files[plan[p].candidate.id].history = plan[p].candidate.history

C9_WriteAfterMove ==
    \A f \in FileIds :
        (Exists(f) /\ files'[f] # NoFile /\ files'[f] # files[f]) =>
            disk[f] = files'[f].node

\* C9: a file record is rewritten only once its payload is at the new node;
\* after a failed move the cycle neither migrates nor retries, returns FALSE,
\* and the record's node, path and history are those the plan was built from.
C9_NoWriteWithoutMove ==
    []C9_FailedMoveLeavesRecord /\ [][C9_WriteAfterMove]_vars

\* A cycle has ended on a failed move although the payload was in place.
C9_Witness ==
    \E p \in Procs :
        /\ pc[p] = "done"
        /\ err[p] = "move_failed"
        /\ Exists(plan[p].candidate.id)
        /\ disk[plan[p].candidate.id] = plan[p].candidate.path

\* C10: whenever no cycle is in flight, every file record's node is the node
\* that holds the file's payload.
C10_StoreMatchesDisk ==
    ~InFlight => \A f \in FileIds : Exists(f) => files[f].node = disk[f]

\* ------------------------------------- cycles alone, fairly scheduled
\* Any store of at most MaxFiles files, any drain state that then stays as it
\* is, any threshold; no external collaborator acts and no step fails.
InitDrain ==
    /\ DashboardAtRest
    /\ zk_nodes \in ConfiguredChoices
    /\ threshold \in 0..MaxThreshold
    /\ files \in [FileIds -> {NoFile} \cup {FreshRecord(n) : n \in Range(zk_nodes)}]
    /\ created = MaxFiles
    /\ disk = [i \in FileIds |-> files[i].node]
    /\ drained \in SUBSET Range(zk_nodes)
    /\ registry = [i \in FileIds |-> files[i].node]
    /\ ops = <<>>
    /\ lock = NoProc
    /\ pc = [p \in Procs |-> "idle"]
    /\ before = [p \in Procs |-> NoPlan]
    /\ plan = [p \in Procs |-> NoPlan]
    /\ after = [p \in Procs |-> NoPlan]
    /\ executed = [p \in Procs |-> FALSE]
    /\ err = [p \in Procs |-> "none"]
    /\ diag = NoPlan
    /\ races = 0
    /\ incidents = 0
    /\ stopped = FALSE

NextDrain ==
    \/ \E p \in Procs : Acquire(p)
    \/ \E p \in Procs : BuildBefore(p)
    \/ \E p \in Procs : Build(p)
    \/ \E p \in Procs : MoveOk(p)
    \/ \E p \in Procs : StoreOk(p)
    \/ \E p \in Procs : RegistryOk(p)
    \/ \E p \in Procs : Audit(p)
    \/ \E p \in Procs : BuildAfter(p)
    \/ \E p \in Procs : Release(p)

\* auto_scheduler_loop calls maybe_rebalance_files every interval, and every
\* call runs to its end.
SpecDrain == InitDrain /\ [][NextDrain]_vars /\ WF_vars(NextDrain)

\* C11: a node that is drained while another configured node is not
\* eventually holds no file, when cycles keep running and nothing else acts.
C11_DrainedNodeEmpties ==
    \A n \in AllNodes :
        (n \in drained /\ Range(zk_nodes) \ drained # {}) ~> (FilesOn(n) = {})

\* The cycle of p migrated a file and its registry write-through failed.
RegistryLagged(p) ==
    /\ pc[p] \in {"audit", "after", "done"}
    /\ HasPlan(plan[p])
    /\ plan[p].shouldMigrate
    /\ err[p] = "none"
    /\ Exists(plan[p].candidate.id)
    /\ registry[plan[p].candidate.id] # plan[p].targetNode

C12_StoreWriteKept ==
    \A p \in Procs :
        RegistryLagged(p) =>
            /\ files[plan[p].candidate.id] = MigratedRecord(plan[p])
            /\ pc[p] \in {"after", "done"} => executed[p]

C12_CycleGoesOn ==
    \A p \in Procs :
        /\ (pc[p] = "registry" /\ pc'[p] # "registry" /\ registry' = registry) =>
              /\ pc'[p] = "audit"
              /\ files' = files
              /\ disk' = disk
        /\ (RegistryLagged(p) /\ pc[p] = "audit" /\ pc'[p] # "audit") =>
              /\ executed'[p]
              /\ Len(ops') = Len(ops) + 1
              /\ files' = files

\* C12: when the registry write-through of a migration fails, the file record
\* keeps the target node and the new history entry, the cycle goes on to the
\* audit record and reports executed = TRUE; the registry lags behind.
C12_RegistryFailureKeepsStore == []C12_StoreWriteKept /\ [][C12_CycleGoesOn]_vars

\* A cycle has ended with executed = TRUE while the registry still names the
\* source node.
C12_Witness ==
    \E p \in Procs :
        /\ pc[p] = "done"
        /\ RegistryLagged(p)
        /\ executed[p]
        /\ registry[plan[p].candidate.id] = plan[p].sourceNode

C13_OnlyThatNode ==
    drained' # drained =>
        /\ \E n \in Range(zk_nodes) :
              \/ n \notin drained /\ drained' = drained \cup {n}
              \/ n \in drained /\ drained' = drained \ {n}
        /\ UNCHANGED <<files, created, disk, registry, ops, lock, pc, before, plan,
                       after, executed, err, diag, config>>

C13_NextPlanSeesIt ==
    /\ (diag' # diag /\ HasPlan(diag')) => diag'.drainedNodes = drained
    /\ \A p \in Procs :
          /\ (before'[p] # before[p] /\ HasPlan(before'[p])) =>
                before'[p].drainedNodes = drained
          /\ (plan'[p] # plan[p] /\ HasPlan(plan'[p])) =>
                plan'[p].drainedNodes = drained
          /\ (after'[p] # after[p] /\ HasPlan(after'[p])) =>
                after'[p].drainedNodes = drained

NextDiag ==
    \/ Acquire("timer")
    \/ Build("timer")
    \/ MoveOk("timer")
    \/ MoveFail("timer")
    \/ StoreOk("timer")
    \/ StoreFail("timer")
    \/ RegistryOk("timer")
    \/ RegistryFail("timer")
    \/ Audit("timer")
    \/ Release("timer")
    \/ Diagnostics

SpecDiag == InitDrain /\ [][NextDiag]_vars

C14_DiagnosticsFrame ==
    diag' # diag =>
        /\ diag' = CurrentPlan
        /\ UNCHANGED <<files, created, disk, drained, registry, ops, lock, pc,
                       before, plan, after, executed, err, config>>

\* C14: a diagnostics call returns the plan of the current snapshot and leaves
\* file records, payloads, node states, the registry, the audit log and every
\* cycle unchanged, whenever it is called.
C14_DiagnosticsReadOnly == [][C14_DiagnosticsFrame]_vars

\* The diagnostics were read after a migration had been recorded and while a
\* cycle was between its physical move and its store write.
C14_Witness ==
    /\ HasPlan(diag)
    /\ ops # <<>>
    /\ diag.counts = ops[Len(ops)].after_metrics
    /\ diag.counts # ops[Len(ops)].before_metrics
    /\ \E p \in Procs : pc[p] = "store"

\* ------------------------- cycles with failures, fairly scheduled
\* A step of a cycle, failing steps included: every call returns or raises
\* within its timeout, and the loop and the API keep calling.
CycleStep ==
    \/ \E p \in Procs : Acquire(p)
    \/ \E p \in Procs : BuildBefore(p)
    \/ \E p \in Procs : Build(p)
    \/ \E p \in Procs : MoveOk(p)
    \/ \E p \in Procs : MoveFail(p)
    \/ \E p \in Procs : StoreOk(p)
    \/ \E p \in Procs : StoreFail(p)
    \/ \E p \in Procs : RegistryOk(p)
    \/ \E p \in Procs : RegistryFail(p)
    \/ \E p \in Procs : Audit(p)
    \/ \E p \in Procs : BuildAfter(p)
    \/ \E p \in Procs : Release(p)

NextLoop ==
    \/ CycleStep
    \/ \E f \in FileIds : Delete(f)

\* Every file is in the store, on any configured node; no node is drained.
InitLoop ==
    /\ InitDrain
    /\ drained = {}
    /\ \A f \in FileIds : Exists(f)

SpecLoop == InitLoop /\ [][NextLoop]_vars /\ WF_vars(CycleStep)

\* The cycle of p has met an execution failure.
FailedCycle(p) == err[p] # "none" \/ RegistryLagged(p)

\* No cycle is in flight and the critical section is free.
AllIdle == lock = NoProc /\ \A p \in Procs : pc[p] = "idle"

\* A cycle has built its plan and run to its end.
CycleDone == \E q \in Procs : pc[q] = "done" /\ HasPlan(plan[q])

\* C15: after a cycle has failed (payload vanished, move failed, store or
\* registry write failed) the critical section is released, and whenever it is
\* free and the audit log has room a trigger runs a whole cycle, from a plan
\* built on the store as it is then to the cycle's end.
C15_LoopSurvivesFailure ==
    /\ (\E p \in Procs : FailedCycle(p)) ~> AllIdle
    /\ (AllIdle /\ Len(ops) < MaxOps) ~> CycleDone

\* A cycle has run to its end after an earlier cycle had failed at its store
\* write, leaving the payload away from the node of its record.
C15_Witness ==
    /\ CycleDone
    /\ incidents >= 1
    /\ \E f \in FileIds : Exists(f) /\ disk[f] # files[f].node
    /\ \E q \in Procs : pc[q] = "done" /\ err[q] = "move_failed"

\* ------------------------------------ the background loop being stopped
\* Faulty variant of Stop: the loop's task is cancelled where it stands.
StopCancelsCycle ==
    /\ ~stopped
    /\ stopped' = TRUE
    /\ pc' = [pc EXCEPT !["timer"] = "idle"]
    /\ lock' = IF lock = "timer" THEN NoProc ELSE lock
    /\ UNCHANGED <<config, dashboard, storeVars, before, plan, after, executed, err, races, budget>>

\* The loop is asked to stop: it takes no further tick.
Stop ==
    /\ ~stopped
    /\ stopped' = TRUE
    /\ UNCHANGED <<config, dashboard, storeVars, lock, pc, before, plan, after, executed, err,
                   races, budget>>

\* A step of the background loop's cycle.
TimerStep ==
    \/ Acquire("timer")
    \/ Build("timer")
    \/ MoveOk("timer")
    \/ MoveFail("timer")
    \/ StoreOk("timer")
    \/ StoreFail("timer")
    \/ RegistryOk("timer")
    \/ RegistryFail("timer")
    \/ Audit("timer")
    \/ Release("timer")

NextStop ==
    \/ TimerStep
    \/ Stop

SpecStop == InitLoop /\ [][NextStop]_vars /\ WF_vars(TimerStep)

C16_NoNewTick ==
    /\ stopped => stopped'
    /\ (stopped /\ pc["timer"] = "idle") => pc'["timer"] = "idle"

C16_NotCutOff ==
    /\ stopped' # stopped => (pc' = pc /\ lock' = lock /\ files' = files /\ disk' = disk)
    /\ (stopped /\ pc["timer"] = "move" /\ pc'["timer"] # "move") =>
          pc'["timer"] \in {"store", "done"}
    /\ (stopped /\ pc["timer"] = "store" /\ pc'["timer"] # "store") =>
          pc'["timer"] \in {"registry", "done"}
    /\ (stopped /\ pc["timer"] = "done" /\ pc'["timer"] # "done") =>
          (pc'["timer"] = "idle" /\ lock' = NoProc)

\* C16: once the loop has been asked to stop, no timer cycle begins; the stop
\* request itself changes no cycle position, and a timer cycle in flight takes
\* its usual steps, the store write after the move included, until it has
\* released the critical section.
C16_CleanStop ==
    /\ [][C16_NoNewTick /\ C16_NotCutOff]_vars
    /\ (stopped /\ pc["timer"] \in InSection) ~> (pc["timer"] = "idle" /\ lock = NoProc)

\* The loop has been asked to stop while its cycle stands between the physical
\* move and the store write.
C16_Witness ==
    /\ stopped
    /\ pc["timer"] = "store"
    /\ disk[plan["timer"].candidate.id] = plan["timer"].targetNode
    /\ files[plan["timer"].candidate.id].node = plan["timer"].sourceNode

ReasonsOfSpec == {"ok", "no_candidate", "no_target", "below_threshold", "single_target"}

Explained(pl, codes) ==
    /\ pl.reason \in codes
    /\ pl.message.about = pl.reason
    /\ pl.shouldMigrate <=> pl.reason = "ok"
    /\ DOMAIN pl.counts = Range(zk_nodes)
    /\ pl.sourceNode \in Range(zk_nodes)
    /\ pl.targetNode \in Range(zk_nodes)

ScenarioThreshold == 5

\* A store with c1 files on zk1, c2 on zk2 and c3 on zk3.
ScenarioFiles(c1, c2, c3) ==
    [i \in 1..(c1 + c2 + c3) |->
        FreshRecord(IF i <= c1 THEN "zk1" ELSE IF i <= c1 + c2 THEN "zk2" ELSE "zk3")]

InitScenario ==
    /\ DashboardAtRest
    /\ zk_nodes = <<"zk1", "zk2", "zk3">>
    /\ threshold = ScenarioThreshold
    /\ \E c1 \in {3, 6, 12}, c2 \in {1, 5}, c3 \in {0, 4, 5} :
          files = ScenarioFiles(c1, c2, c3)
    /\ created = Cardinality(DOMAIN files)
    /\ disk = [i \in DOMAIN files |-> files[i].node]
    /\ drained \in SUBSET Range(zk_nodes)
    /\ registry = [i \in DOMAIN files |-> files[i].node]
    /\ ops = <<>>
    /\ lock = NoProc
    /\ pc = [p \in Procs |-> "idle"]
    /\ before = [p \in Procs |-> NoPlan]
    /\ plan = [p \in Procs |-> NoPlan]
    /\ after = [p \in Procs |-> NoPlan]
    /\ executed = [p \in Procs |-> FALSE]
    /\ err = [p \in Procs |-> "none"]
    /\ diag = NoPlan
    /\ races = 0
    /\ incidents = 0
    /\ stopped = FALSE

NextScenario == Diagnostics

SpecScenario == InitScenario /\ [][NextScenario]_vars

CountsAre(pl, c1, c2, c3) ==
    pl.counts = [n \in Range(zk_nodes) |->
                    IF n = "zk1" THEN c1 ELSE IF n = "zk2" THEN c2 ELSE c3]

Scenario1 ==
    (CountsAre(diag, 12, 5, 4) /\ diag.drainedNodes = {}) =>
        /\ diag.sourceNode = "zk1"
        /\ diag.targetNode = "zk3"
        /\ diag.delta = 8
        /\ diag.shouldMigrate

Scenario2 ==
    (CountsAre(diag, 12, 5, 4) /\ diag.drainedNodes = {"zk3"}) =>
        /\ diag.targetNode = "zk2"
        /\ diag.delta = 7
        /\ diag.shouldMigrate

Scenario3 ==
    (CountsAre(diag, 6, 5, 5) /\ diag.drainedNodes = {}) =>
        /\ diag.delta = 1
        /\ diag.reason = "below_threshold"
        /\ ~diag.shouldMigrate

Scenario4 ==
    (CountsAre(diag, 3, 1, 0) /\ diag.drainedNodes = {"zk1", "zk2", "zk3"}) =>
        /\ diag.targetNode = "zk3"
        /\ diag.message.fallback

\* C19: with nodes [zk1, zk2, zk3] and threshold 5 the plan is as the four
\* worked examples say: counts 12/5/4 give zk1 -> zk3 with delta 8; the same
\* with zk3 drained give target zk2, delta 7, migrate; counts 6/5/5 give delta
\* 1, below_threshold; counts 3/1/0 with all nodes drained give target zk3 and
\* a message that mentions the fallback.
C19_WorkedExamples ==
    HasPlan(diag) => (Scenario1 /\ Scenario2 /\ Scenario3 /\ Scenario4)

\* ------------------- the plan builder on stores with something to decide
\* As InitPlan, with at least two configured nodes and at least one file.
InitGates ==
    /\ DashboardAtRest
    /\ InitPlan
    /\ Len(zk_nodes) > 1
    /\ \E f \in DOMAIN files : files[f] # NoFile

NextGates == Diagnostics

SpecGates == InitGates /\ [][NextGates]_vars

Pos(n) == CHOOSE i \in 1..Len(zk_nodes) : zk_nodes[i] = n

SourcePool(pl) ==
    IF DrainedWithFiles(pl) # {} THEN DrainedWithFiles(pl) ELSE Range(zk_nodes)

TargetPool(pl) ==
    IF Range(zk_nodes) \ pl.drainedNodes # {} THEN Range(zk_nodes) \ pl.drainedNodes
    ELSE Range(zk_nodes)

\* C21: the source is the first node, in the order of the configured list,
\* among the most loaded nodes eligible as source; the target is the first
\* among the least loaded nodes eligible as target; the candidate is the
\* newest file on the source; a second call on the same store gives the same
\* plan.
C21_StableSelection ==
    HasPlan(diag) =>
        /\ diag.sourceNode \in SourcePool(diag)
        /\ \A n \in SourcePool(diag) :
              \/ diag.counts[n] < diag.counts[diag.sourceNode]
              \/ diag.counts[n] = diag.counts[diag.sourceNode]
                 /\ Pos(diag.sourceNode) <= Pos(n)
        /\ diag.targetNode \in TargetPool(diag)
        /\ \A n \in TargetPool(diag) :
              \/ diag.counts[n] > diag.counts[diag.targetNode]
              \/ diag.counts[n] = diag.counts[diag.targetNode]
                 /\ Pos(diag.targetNode) <= Pos(n)
        /\ IF FilesOn(diag.sourceNode) = {} THEN diag.candidate = NoCandidate
           ELSE /\ diag.candidate.id \in FilesOn(diag.sourceNode)
                /\ \A f \in FilesOn(diag.sourceNode) : f <= diag.candidate.id
        /\ diag = CurrentPlan

\* The list starts with zk3; two nodes tie for the highest count and two for
\* the lowest, and the source holds two files.
C21_Witness ==
    /\ HasPlan(diag)
    /\ zk_nodes = <<"zk3", "zk1", "zk2">>
    /\ diag.counts["zk3"] = 2
    /\ diag.counts["zk1"] = 2
    /\ diag.counts["zk2"] = 0
    /\ diag.drainedNodes = {"zk2"}
    /\ diag.sourceNode = "zk3"
    /\ diag.targetNode = "zk3"

\* The candidate of p's plan was deleted after the plan was built and before
\* the move.
CandidateVanished(p) ==
    /\ pc[p] = "move"
    /\ ~Exists(plan[p].candidate.id)

C22_VanishedEndsCycle ==
    \A p \in Procs :
        /\ (CandidateVanished(p) /\ pc'[p] # pc[p]) =>
              /\ pc'[p] = Returned(p)
              /\ ~executed'[p]
              /\ UNCHANGED <<files, disk, registry, ops>>
        /\ (plan'[p] # plan[p] /\ HasPlan(plan'[p])) =>
              /\ plan'[p] = CurrentPlan
              /\ plan'[p].candidate # NoCandidate => Exists(plan'[p].candidate.id)

C22_VanishedReported ==
    \A p \in Procs :
        (pc[p] \in {"after", "done"} /\ HasPlan(plan[p]) /\ plan[p].shouldMigrate
         /\ ~Exists(plan[p].candidate.id) /\ err[p] = "move_failed") =>
            /\ ~executed[p]
            /\ disk[plan[p].candidate.id] = NoNode

ExecStages == {"move", "store", "registry", "audit"}

\* p leaves maybe_rebalance_files after having reached the physical move.
LeavesExecute(p) ==
    /\ pc[p] \in ExecStages
    /\ pc'[p] = Returned(p)

\* The step appends one auto_migrate record of p's plan with the given status.
Records(p, status) ==
    /\ Len(ops') = Len(ops) + 1
    /\ SubSeq(ops', 1, Len(ops)) = ops
    /\ LET r == ops'[Len(ops')]
       IN /\ r.action = "auto_migrate"
          /\ r.before_metrics = plan[p].counts
          /\ r.after_metrics = CountsOf(files)
          /\ r.status = status

\* C23: every execute that reached the physical move leaves exactly one
\* auto_migrate record, with the plan's counts before, the recomputed counts
\* after, status success when move and store write succeeded and failed
\* otherwise; no other step writes an auto_migrate record.
C23_EveryMoveAudited ==
    [][/\ \A p \in Procs :
            LeavesExecute(p) =>
                Records(p, IF pc[p] = "audit" THEN "success" ELSE "failed")
       /\ (~\E p \in Procs : LeavesExecute(p)) => ops' = ops]_vars

\* C23 (amended): an execute whose move and store write succeeded leaves
\* exactly one auto_migrate record with the plan's counts before, the
\* recomputed counts after and status success; an execute whose move or store
\* write failed, and every other step, writes no record.
C23_SuccessAudited ==
    [][/\ \A p \in Procs :
            (LeavesExecute(p) /\ pc[p] = "audit") => Records(p, "success")
       /\ (~\E p \in Procs : LeavesExecute(p) /\ pc[p] = "audit") => ops' = ops]_vars

\* One migration has been recorded, with different counts before and after,
\* and a manual run has ended on a failed move or store write.
C23_Witness ==
    /\ Len(ops) = 1
    /\ ops[1].before_metrics # ops[1].after_metrics
    /\ pc["manual"] = "done"
    /\ err["manual"] \in {"move_failed", "store_failed"}

\* ------------------------- cycles only
\* Timer-driven and manual cycles, failing steps included, over a fixed set of
\* files and fixed node states.
SpecCycles == InitDrain /\ [][CycleStep]_vars

\* The file ids that have a record.
FileIdsOf(fs) == {f \in DOMAIN fs : fs[f] # NoFile}

\* counts after one file has gone from node a to node b.
Shifted(counts, a, b) ==
    [n \in DOMAIN counts |->
        IF a = b THEN counts[n]
        ELSE IF n = a THEN counts[n] - 1
        ELSE IF n = b THEN counts[n] + 1
        ELSE counts[n]]

\* A step keeps the set of records and rewrites at most one of them, the
\* candidate of the cycle that is at its store write.
OneRecordPerStep ==
    /\ FileIdsOf(files') = FileIdsOf(files)
    /\ Cardinality({f \in FileIds : files'[f] # files[f]}) <= 1
    /\ \A f \in FileIds :
          files'[f] # files[f] =>
              \E p \in Procs : /\ pc[p] = "store"
                               /\ pc'[p] = "registry"
                               /\ plan[p].candidate.id = f

\* From its plan on, the cycle in progress has moved no file or one file from
\* the plan's source to the plan's target.
OneRecordPerCycle ==
    \A p \in Procs :
        (lock = p /\ pc[p] \in ExecStages \cup {"after", "done"}) =>
            /\ CountsOf(files) \in
                  {plan[p].counts,
                   Shifted(plan[p].counts, plan[p].sourceNode, plan[p].targetNode)}
            /\ (IsManual(p) /\ pc[p] = "done") =>
                  /\ after[p].counts = CountsOf(files)
                  /\ before[p].counts = plan[p].counts

\* Every record is on one configured node, and the counts add up to the
\* number of records.
OneNodePerFile ==
    /\ \A f \in FileIdsOf(files) : files[f].node \in Range(zk_nodes)
    /\ SumCounts(CountsOf(files), zk_nodes) = Cardinality(FileIdsOf(files))

\* C24: with no uploads or deletions, a cycle rewrites the node of at most
\* one record and creates or deletes none, so the set of file ids and the
\* number of files stay the same, and every file is on exactly one node.
C24_CyclePreservesFiles ==
    /\ [](OneRecordPerCycle /\ OneNodePerFile)
    /\ [][OneRecordPerStep]_vars

\* A manual run has moved one of two files of the same node.
C24_Witness ==
    /\ pc["manual"] = "done"
    /\ executed["manual"]
    /\ before["manual"].counts[before["manual"].sourceNode] = 2
    /\ after["manual"].counts =
          Shifted(before["manual"].counts, plan["manual"].sourceNode,
                  plan["manual"].targetNode)
    /\ after["manual"].counts # before["manual"].counts

\* The plan of the store as it is asks for no migration.
Settled == ~CurrentPlan.shouldMigrate

\* The largest per-node count exceeds the smallest by less than the threshold.
Balanced ==
    \A a \in Range(zk_nodes) : \A b \in Range(zk_nodes) :
        CountsOf(files)[a] - CountsOf(files)[b] < threshold

MountedHook ==
    /\ hook = "created"
    /\ hook' = "mounted"
    /\ inflight' = [inflight EXCEPT !["mount"] = @ + 1]
    /\ started' = [started EXCEPT !["mount"] = @ + 1]
    /\ \E id \in TimerIds :
          /\ autoRefreshTimer' = id
          /\ intervals' = intervals \cup {id}
    /\ due' = now + RefreshIntervalMs
    /\ UNCHANGED <<backend, schedVars, uploadVars, guardVars, now, lastRefresh>>

\* Time passes, up to the moment the live interval is due.
Advance ==
    /\ now + RefreshIntervalMs \div 2 <= MaxIntervals * RefreshIntervalMs
    /\ intervals # {} => now + RefreshIntervalMs \div 2 <= due
    /\ now' = now + RefreshIntervalMs \div 2
    /\ UNCHANGED <<backend, schedVars, uploadVars, guardVars, hook, autoRefreshTimer, intervals, due, inflight,
                   started, lastRefresh>>

\* The interval callback: () => this.refreshAll().
IntervalFires ==
    /\ intervals # {}
    /\ now = due
    /\ inflight' = [inflight EXCEPT !["timer"] = @ + 1]
    /\ started' = [started EXCEPT !["timer"] = @ + 1]
    /\ due' = due + RefreshIntervalMs
    /\ UNCHANGED <<backend, schedVars, uploadVars, guardVars, hook, autoRefreshTimer, intervals, now, lastRefresh>>

\* A refreshAll in flight settles: its three requests answered, or one failed.
RefreshAllSettles(o, outcome) ==
    /\ inflight[o] > 0
    /\ inflight' = [inflight EXCEPT ![o] = @ - 1]
    /\ lastRefresh' = outcome
    /\ UNCHANGED <<backend, schedVars, uploadVars, guardVars, hook, autoRefreshTimer, intervals, now, due, started>>

\* Faulty variant of BeforeUnmountHook: the field is reset, the interval is
\* left running.
BeforeUnmountKeepsInterval ==
    /\ hook = "mounted"
    /\ hook' = "unmounted"
    /\ autoRefreshTimer' = NoTimer
    /\ UNCHANGED <<backend, schedVars, uploadVars, guardVars, intervals, now, due, inflight, started, lastRefresh>>

\* beforeUnmountHook
BeforeUnmountHook ==
    /\ hook = "mounted"
    /\ hook' = "unmounted"
    /\ IF autoRefreshTimer # NoTimer
       THEN /\ intervals' = intervals \ {autoRefreshTimer}
            /\ autoRefreshTimer' = NoTimer
       ELSE UNCHANGED <<intervals, autoRefreshTimer>>
    /\ UNCHANGED <<backend, schedVars, uploadVars, guardVars, now, due, inflight, started, lastRefresh>>

\* The page is loaded against a backend with its three nodes and no file.
InitMount ==
    /\ Init
    /\ zk_nodes = <<"zk1", "zk2", "zk3">>
    /\ threshold = MaxThreshold

NextMount ==
    \/ MountedHook
    \/ Advance
    \/ IntervalFires
    \/ \E o \in Origins : \E outcome \in {"ok", "failed"} : RefreshAllSettles(o, outcome)
    \/ BeforeUnmountHook

SpecMount == InitMount /\ [][NextMount]_vars

\* What holds of the timer in each stage of the component's life.
TimerMatchesHook ==
    /\ hook = "created" =>
          /\ started = [o \in Origins |-> 0]
          /\ intervals = {}
    /\ hook = "mounted" =>
          /\ started["mount"] = 1
          /\ autoRefreshTimer # NoTimer
          /\ intervals = {autoRefreshTimer}
          /\ now <= due
          /\ due - now <= RefreshIntervalMs
    /\ hook = "unmounted" =>
          /\ started["mount"] = 1
          /\ autoRefreshTimer = NoTimer
          /\ intervals = {}

\* Which steps start a refreshAll, and when.
RefreshStarts ==
    /\ started'["mount"] # started["mount"] =>
          /\ hook = "created" /\ hook' = "mounted"
          /\ started'["timer"] = 0
          /\ due' = now + RefreshIntervalMs
    /\ started'["timer"] # started["timer"] =>
          /\ hook = "mounted" /\ hook' = "mounted"
          /\ started'["timer"] = started["timer"] + 1
          /\ now = due
          /\ due' = due + RefreshIntervalMs
    /\ hook = "unmounted" => started' = started

\* C26: mountedHook starts one refreshAll at once and a timer that starts one
\* more every 8000 ms; once beforeUnmountHook has run the timer is cleared,
\* _autoRefreshTimer is null and the timer starts no further refreshAll.
C26_AutoRefreshLifecycle == []TimerMatchesHook /\ [][RefreshStarts]_vars

\* The component was unmounted after the timer had started a refreshAll that
\* is still in flight, and more than a refresh interval has passed since.
C26_Witness ==
    /\ hook = "unmounted"
    /\ started["timer"] = 1
    /\ inflight["timer"] = 1
    /\ now > due

\* ------------------------- the dashboard: runScheduler
\* The finally block of runScheduler: the reset is left to a 1000 ms timer.
RunFinally(r) ==
    /\ hidePending' = hidePending + 1
    /\ runPc' = [runPc EXCEPT ![r] = "idle"]

\* runScheduler is called (button click or uploadRealFiles), up to the first
\* await: the 200 ms pause.
RunStart(r) ==
    /\ runPc[r] = "idle"
    /\ runsStarted < MaxRunStarts
    /\ runsStarted' = runsStarted + 1
    /\ schedulerRunning' = TRUE
    /\ schedulerProgress' = 20
    /\ runPc' = [runPc EXCEPT ![r] = "analysing"]
    /\ UNCHANGED <<backend, mountVars, uploadVars, guardVars, schedulerMessage, hidePending>>

\* The 200 ms pause is over: POST /api/scheduler/run is sent.
RunRequest(r) ==
    /\ runPc[r] = "analysing"
    /\ schedulerProgress' = 40
    /\ runPc' = [runPc EXCEPT ![r] = "requesting"]
    /\ UNCHANGED <<backend, mountVars, uploadVars, guardVars, schedulerRunning, schedulerMessage,
                   hidePending, runsStarted>>

\* The request is answered: progress 70 and the 300 ms pause.
RunAnswered(r) ==
    /\ runPc[r] = "requesting"
    /\ schedulerProgress' = 70
    /\ runPc' = [runPc EXCEPT ![r] = "showing"]
    /\ UNCHANGED <<backend, mountVars, uploadVars, guardVars, schedulerRunning, schedulerMessage,
                   hidePending, runsStarted>>

\* fetchJson threw: catch, then finally.
RunRequestFails(r) ==
    /\ runPc[r] = "requesting"
    /\ schedulerMessage' = "failed"
    /\ RunFinally(r)
    /\ UNCHANGED <<backend, mountVars, uploadVars, guardVars, schedulerRunning, schedulerProgress,
                   runsStarted>>

\* The 300 ms pause is over: progress 100, the message, and refreshAll.
RunShown(r) ==
    /\ runPc[r] = "showing"
    /\ schedulerProgress' = 100
    /\ schedulerMessage' = "done"
    /\ runPc' = [runPc EXCEPT ![r] = "refreshing"]
    /\ UNCHANGED <<backend, mountVars, uploadVars, guardVars, schedulerRunning, hidePending, runsStarted>>

\* await this.refreshAll() returned: finally.
RunRefreshed(r) ==
    /\ runPc[r] = "refreshing"
    /\ RunFinally(r)
    /\ UNCHANGED <<backend, mountVars, uploadVars, guardVars, schedulerRunning, schedulerProgress,
                   schedulerMessage, runsStarted>>

\* await this.refreshAll() threw: catch, then finally.
RunRefreshFails(r) ==
    /\ runPc[r] = "refreshing"
    /\ schedulerMessage' = "failed"
    /\ RunFinally(r)
    /\ UNCHANGED <<backend, mountVars, uploadVars, guardVars, schedulerRunning, schedulerProgress,
                   runsStarted>>

\* The timer callback of finally.
HideProgress ==
    /\ hidePending > 0
    /\ hidePending' = hidePending - 1
    /\ schedulerRunning' = FALSE
    /\ schedulerProgress' = 0
    /\ UNCHANGED <<backend, mountVars, uploadVars, guardVars, schedulerMessage, runPc, runsStarted>>

NextRun ==
    \/ \E r \in Runs : RunStart(r)
    \/ \E r \in Runs : RunRequest(r)
    \/ \E r \in Runs : RunAnswered(r)
    \/ \E r \in Runs : RunRequestFails(r)
    \/ \E r \in Runs : RunShown(r)
    \/ \E r \in Runs : RunRefreshed(r)
    \/ \E r \in Runs : RunRefreshFails(r)
    \/ HideProgress

SpecRun == InitMount /\ [][NextRun]_vars

\* A runScheduler call is between its first statement and its finally block.
RunInFlight == \E r \in Runs : runPc[r] # "idle"

\* C27: schedulerRunning is TRUE whenever a runScheduler call is in flight,
\* overlapping calls and failed requests included.
C27_RunningWhileInFlight == RunInFlight => schedulerRunning

\* ------------------------- the dashboard: uploadRealFiles
\* Everything of the page that uploadRealFiles leaves alone.
besideUpload == <<backend, mountVars, schedVars, guardVars>>

\* handleBulkFileSelect / the trigger_scheduler checkbox: the user picks files.
Select(n, trigger) ==
    /\ batches < MaxBatches
    /\ selectedFiles' = Selection(n)
    /\ triggerAfter' = trigger
    /\ UNCHANGED <<besideUpload, bulkLoading, bulkMessage, uploadProgress, upPc,
                   upFiles, upIndex, upItem, successCount, failCount,
                   clearPending, sent, batches>>

\* The loop with i = j, up to its next await: either progressItem is read
\* from the list and the request for files[j] is sent, or the loop is over,
\* the message is set and runScheduler or refreshAll is called.
Turn(j, fs, list, wins) ==
    /\ upIndex' = j
    /\ IF j <= Len(fs)
       THEN /\ upItem' = IF j <= Len(list) THEN "live" ELSE "undefined"
            /\ sent' = IF j = 1 THEN <<fs[j]>> ELSE Append(sent, fs[j])
            /\ upPc' = "awaiting"
            /\ bulkMessage' = "none"
       ELSE /\ upItem' = upItem
            /\ sent' = IF j = 1 THEN <<>> ELSE sent
            /\ upPc' = IF triggerAfter /\ wins > 0 THEN "scheduling" ELSE "refreshing"
            /\ bulkMessage' = "complete"

\* uploadRealFiles is called: the progress list is built and the loop is
\* entered. The upload button is taken to be unavailable while an upload is
\* running.
UploadStart ==
    /\ upPc = "idle"
    /\ batches < MaxBatches
    /\ batches' = batches + 1
    /\ bulkLoading' = TRUE
    /\ upFiles' = selectedFiles
    /\ uploadProgress' = [i \in 1..Len(selectedFiles) |-> "uploading"]
    /\ successCount' = 0
    /\ failCount' = 0
    /\ Turn(1, selectedFiles, uploadProgress', 0)
    /\ UNCHANGED <<besideUpload, selectedFiles, triggerAfter, clearPending>>

\* The outer catch and finally of uploadRealFiles.
UploadAborted ==
    /\ bulkMessage' = "failed"
    /\ bulkLoading' = FALSE
    /\ upPc' = "idle"

\* progressItem.status = value: visible in the list while the item is in it.
Marked(value) ==
    IF upItem = "live"
    THEN [uploadProgress EXCEPT ![upIndex] = value]
    ELSE uploadProgress

\* The upload request is answered: the entry is marked, the 300 ms pause
\* begins. With progressItem undefined the try block throws a TypeError and
\* so does the inner catch.
UploadAnswered ==
    /\ upPc = "awaiting"
    /\ IF upItem = "undefined"
       THEN /\ UploadAborted
            /\ UNCHANGED <<uploadProgress, successCount>>
       ELSE /\ uploadProgress' = Marked("success")
            /\ successCount' = successCount + 1
            /\ upPc' = "pausing"
            /\ UNCHANGED <<bulkMessage, bulkLoading>>
    /\ UNCHANGED <<besideUpload, selectedFiles, triggerAfter, upFiles, upIndex,
                   upItem, failCount, clearPending, sent, batches>>

\* The 300 ms pause is over: i++ and the next turn.
UploadPaused ==
    /\ upPc = "pausing"
    /\ Turn(upIndex + 1, upFiles, uploadProgress, successCount)
    /\ UNCHANGED <<besideUpload, selectedFiles, triggerAfter, bulkLoading,
                   uploadProgress, upFiles, successCount, failCount,
                   clearPending, batches>>

\* The upload request failed: the inner catch marks the entry; i++ and the
\* next turn.
UploadRejected ==
    /\ upPc = "awaiting"
    /\ IF upItem = "undefined"
       THEN /\ UploadAborted
            /\ UNCHANGED <<uploadProgress, failCount, upIndex, upItem, sent>>
       ELSE /\ uploadProgress' = Marked("error")
            /\ failCount' = failCount + 1
            /\ Turn(upIndex + 1, upFiles, uploadProgress', successCount)
            /\ UNCHANGED bulkLoading
    /\ UNCHANGED <<besideUpload, selectedFiles, triggerAfter, upFiles,
                   successCount, clearPending, batches>>

\* await this.runScheduler() returned (it catches its own errors).
UploadScheduled ==
    /\ upPc = "scheduling"
    /\ upPc' = "refreshing"
    /\ UNCHANGED <<besideUpload, selectedFiles, triggerAfter, bulkLoading,
                   bulkMessage, uploadProgress, upFiles, upIndex, upItem,
                   successCount, failCount, clearPending, sent, batches>>

\* await this.refreshAll() returned: the selection is emptied, the progress
\* list is left to a 3000 ms timer; finally.
UploadRefreshed ==
    /\ upPc = "refreshing"
    /\ selectedFiles' = <<>>
    /\ clearPending' = clearPending + 1
    /\ bulkLoading' = FALSE
    /\ upPc' = "idle"
    /\ UNCHANGED <<besideUpload, triggerAfter, bulkMessage, uploadProgress,
                   upFiles, upIndex, upItem, successCount, failCount, sent, batches>>

\* await this.refreshAll() threw: the outer catch; finally.
UploadRefreshFails ==
    /\ upPc = "refreshing"
    /\ UploadAborted
    /\ UNCHANGED <<besideUpload, selectedFiles, triggerAfter, uploadProgress,
                   upFiles, upIndex, upItem, successCount, failCount,
                   clearPending, sent, batches>>

\* The timer callback: this.uploadProgress = [].
ClearProgress ==
    /\ clearPending > 0
    /\ clearPending' = clearPending - 1
    /\ uploadProgress' = <<>>
    /\ upItem' = IF upItem = "live" THEN "detached" ELSE upItem
    /\ UNCHANGED <<besideUpload, selectedFiles, triggerAfter, bulkLoading,
                   bulkMessage, upPc, upFiles, upIndex, successCount, failCount,
                   sent, batches>>

NextUpload ==
    \/ \E n \in 0..MaxSelected : \E trigger \in BOOLEAN : Select(n, trigger)
    \/ UploadStart
    \/ UploadAnswered
    \/ UploadPaused
    \/ UploadRejected
    \/ UploadScheduled
    \/ UploadRefreshed
    \/ UploadRefreshFails
    \/ ClearProgress

SpecUpload == InitMount /\ [][NextUpload]_vars

\* The positions inside the for loop.
InLoop == {"awaiting", "pausing"}

\* The files are sent in the order of the selection, one request at a time.
SentInOrder ==
    /\ IsPrefix(sent, upFiles)
    /\ upPc \in InLoop =>
          Len(sent) = successCount + failCount + (IF upPc = "awaiting" THEN 1 ELSE 0)

\* The loop is left only at its end, with every file sent and counted and
\* every entry of the progress list marked, and runScheduler is called
\* exactly when trigger_scheduler is set and an upload succeeded.
LoopRunsToItsEnd ==
    (upPc \in InLoop /\ upPc' \notin InLoop) =>
        /\ upPc' \in {"scheduling", "refreshing"}
        /\ sent' = upFiles
        /\ successCount' + failCount' = Len(upFiles)
        /\ \A i \in DOMAIN uploadProgress' :
              uploadProgress'[i] \in {"success", "error"}
        /\ upPc' = "scheduling" <=> (triggerAfter /\ successCount' > 0)

\* C28: uploadRealFiles sends the selected files in order with one request in
\* flight; a failed upload does not end the loop; when the loop ends every
\* file is counted as success or failure and no entry is left uploading;
\* runScheduler follows only if trigger_scheduler is set and an upload
\* succeeded.
C28_SequentialUpload == []SentInOrder /\ [][LoopRunsToItsEnd]_vars

\* ------------------------- common.js: withUiState
\* Everything of the page that a wrapped function leaves alone.
besideGuard == <<backend, mountVars, schedVars, uploadVars>>

\* if (this[key])
Truthy(v) == v = "true"

\* wrapped(asyncFn) is called through the wrapper made for key k, up to its
\* await: it returns at once while this[k] is set, and otherwise sets this[k]
\* and invokes asyncFn.
Wrapped(c, k) ==
    /\ wrapPc[c] # "running"
    /\ invoked < MaxInvoked
    /\ wrapKey' = [wrapKey EXCEPT ![c] = k]
    /\ IF Truthy(uiFlag[k])
       THEN /\ wrapPc' = [wrapPc EXCEPT ![c] = "skipped"]
            /\ UNCHANGED <<uiFlag, invoked>>
       ELSE /\ uiFlag' = [uiFlag EXCEPT ![k] = "true"]
            /\ invoked' = invoked + 1
            /\ wrapPc' = [wrapPc EXCEPT ![c] = "running"]
    /\ UNCHANGED besideGuard

\* Faulty variant of AsyncFnEnds: the flag is reset only when asyncFn resolves.
AsyncFnEndsWithoutFinally(c, outcome) ==
    /\ wrapPc[c] = "running"
    /\ uiFlag' = IF outcome = "resolved"
                 THEN [uiFlag EXCEPT ![wrapKey[c]] = "false"] ELSE uiFlag
    /\ wrapPc' = [wrapPc EXCEPT ![c] = outcome]
    /\ UNCHANGED <<besideGuard, wrapKey, invoked>>

\* asyncFn resolves or throws: finally { this[key] = false }.
AsyncFnEnds(c, outcome) ==
    /\ wrapPc[c] = "running"
    /\ uiFlag' = [uiFlag EXCEPT ![wrapKey[c]] = "false"]
    /\ wrapPc' = [wrapPc EXCEPT ![c] = outcome]
    /\ UNCHANGED <<besideGuard, wrapKey, invoked>>

NextGuard ==
    \/ \E c \in Calls : \E k \in Keys : Wrapped(c, k)
    \/ \E c \in Calls : \E outcome \in {"resolved", "threw"} : AsyncFnEnds(c, outcome)

SpecGuard == InitMount /\ [][NextGuard]_vars

\* The calls whose asyncFn is in flight under key k.
Running(k) == {c \in Calls : wrapPc[c] = "running" /\ wrapKey[c] = k}

\* At most one asyncFn per key is in flight, and this[key] is true exactly
\* while one is.
OneInFlightPerKey ==
    \A k \in Keys :
        /\ Cardinality(Running(k)) <= 1
        /\ Truthy(uiFlag[k]) <=> Running(k) # {}

\* A call made while this[key] is true invokes nothing and changes no flag;
\* any other call sets the flag and invokes asyncFn once; settling resets it.
GuardSteps ==
    \A c \in Calls :
        /\ (wrapPc[c] # "running" /\ wrapPc'[c] # wrapPc[c]) =>
              IF Truthy(uiFlag[wrapKey'[c]])
              THEN wrapPc'[c] = "skipped" /\ UNCHANGED <<uiFlag, invoked>>
              ELSE /\ wrapPc'[c] = "running"
                   /\ invoked' = invoked + 1
                   /\ Truthy(uiFlag'[wrapKey'[c]])
        /\ (wrapPc[c] = "running" /\ wrapPc'[c] # "running") =>
              /\ wrapPc'[c] \in {"resolved", "threw"}
              /\ uiFlag'[wrapKey[c]] = "false"
              /\ invoked' = invoked

\* C29: a function made by withUiState runs at most one asyncFn per key at a
\* time: a call made while this[key] is true returns without invoking
\* asyncFn; otherwise this[key] is true while asyncFn runs and false again
\* once it has resolved or thrown.
C29_SingleFlightPerKey == []OneInFlightPerKey /\ [][GuardSteps]_vars

\* Under one key an asyncFn has thrown, a later call is running and another
\* call was turned away; under the other key nothing runs.
C29_Witness ==
    \E c1 \in Calls : \E c2 \in Calls : \E c3 \in Calls :
        /\ wrapPc[c1] = "threw" /\ wrapKey[c1] = "loading"
        /\ wrapPc[c2] = "running" /\ wrapKey[c2] = "loading"
        /\ wrapPc[c3] = "skipped" /\ wrapKey[c3] = "loading"
        /\ uiFlag["saving"] = "false"

====
